---- MODULE Spec2Model ----
(***************************************************************************)
(* A model of the tree-walking interpreter of interpreter_go: the scanner  *)
(* (internal/scanner/scanner.go), the recursive-descent parser, the value  *)
(* model and the interpreter with its environment.                         *)
(*                                                                         *)
(* Strings are sequences of one-character strings.  Positions (start,      *)
(* current) are 0-based as in the Go source; source[i] is src[i+1].        *)
(* float64 numbers are exact rationals <<n, d>> in lowest terms with       *)
(* d > 0; d = 0 stands for +Inf (n = 1), -Inf (n = -1) and NaN (n = 0).    *)
(***************************************************************************)
EXTENDS Integers, Sequences, FiniteSets, TLC

VARIABLES
    source,     \* LexScanner.source
    tokens,     \* LexScanner.tokens
    start,      \* LexScanner.start
    current,    \* LexScanner.current
    line,       \* LexScanner.line
    pc,         \* position of the process: which call is running / how it ended
    diag,       \* what was written to the log (message kind and line)
    stmts,      \* the statements of the running Interpret call
    ip,         \* how many of them have been executed
    env,        \* Interpreter.environment.values
    mode,       \* Interpreter.mode
    out,        \* lines written to standard output since the last prompt
    last,       \* the statement executed last and the value it returned
    decl,       \* history: name -> value of its most recent VarDeclaration
    nlines      \* number of lines read by runPrompt so far

vars == <<source, tokens, start, current, line, pc, diag, stmts, ip, env,
          mode, out, last, decl, nlines>>

(***************************************************************************)
(* Bounds of the model.                                                    *)
(***************************************************************************)
MaxLen == 3

MaxLines == 2

(***************************************************************************)
(* Characters.                                                             *)
(***************************************************************************)
Digits == {"0", "1", "2", "3", "4", "5", "6", "7", "8", "9"}

Letters == {"a", "b", "c", "d", "e", "f", "g", "h", "i", "j", "k", "l", "m",
            "n", "o", "p", "q", "r", "s", "t", "u", "v", "w", "x", "y", "z",
            "A", "B", "X"}

IsDigit(ch) == ch \in Digits

IsLetter(ch) == ch \in Letters

DigitVal(ch) ==
    CASE ch = "0" -> 0 [] ch = "1" -> 1 [] ch = "2" -> 2 [] ch = "3" -> 3
      [] ch = "4" -> 4 [] ch = "5" -> 5 [] ch = "6" -> 6 [] ch = "7" -> 7
      [] ch = "8" -> 8 [] ch = "9" -> 9

(***************************************************************************)
(* Rational arithmetic standing for float64.                               *)
(***************************************************************************)
Abs(i) == IF i < 0 THEN -i ELSE i

Sign(i) == IF i < 0 THEN -1 ELSE IF i > 0 THEN 1 ELSE 0

RECURSIVE Gcd(_, _)
Gcd(a, b) == IF b = 0 THEN a ELSE Gcd(b, a % b)

Norm(n, d) ==
    IF d = 0 THEN <<Sign(n), 0>>
    ELSE LET g == Gcd(Abs(n), Abs(d))
         IN  <<(Sign(d) * n) \div g, Abs(d) \div g>>

RECURSIVE Pow10(_)
Pow10(k) == IF k = 0 THEN 1 ELSE 10 * Pow10(k - 1)

RECURSIVE DigitsToInt(_)
DigitsToInt(s) ==
    IF s = <<>> THEN 0
    ELSE 10 * DigitsToInt(SubSeq(s, 1, Len(s) - 1)) + DigitVal(s[Len(s)])

(* strconv.ParseFloat on a lexeme of the form digits or digits.digits *)
ParseFloat(lexeme) ==
    LET dots == {i \in 1..Len(lexeme) : lexeme[i] = "."}
    IN  IF dots = {} THEN Norm(DigitsToInt(lexeme), 1)
        ELSE LET p    == CHOOSE i \in dots : TRUE
                 intp == SubSeq(lexeme, 1, p - 1)
                 frac == SubSeq(lexeme, p + 1, Len(lexeme))
             IN  Norm(DigitsToInt(intp \o frac), Pow10(Len(frac)))

(***************************************************************************)
(* Tokens.                                                                 *)
(***************************************************************************)
NoLiteral == [t |-> "nil"]

StringLiteral(s) == [t |-> "string", v |-> s]

FloatLiteral(f) == [t |-> "float64", v |-> f]

Token(type, lexeme, literal, ln) ==
    [Type |-> type, Lexeme |-> lexeme, Literal |-> literal, Line |-> ln]

keywordsMap ==
    [k \in { <<"a","n","d">>, <<"c","l","a","s","s">>, <<"e","l","s","e">>,
             <<"f","a","l","s","e">>, <<"f","u","n">>, <<"f","o","r">>,
             <<"i","f">>, <<"n","i","l">>, <<"o","r">>,
             <<"p","r","i","n","t">>, <<"r","e","t","u","r","n">>,
             <<"s","u","p","e","r">>, <<"t","h","i","s">>,
             <<"t","r","u","e">>, <<"v","a","r">>,
             <<"w","h","i","l","e">> } |->
        CASE k = <<"a","n","d">> -> "AND"
          [] k = <<"c","l","a","s","s">> -> "CLASS"
          [] k = <<"e","l","s","e">> -> "ELSE"
          [] k = <<"f","a","l","s","e">> -> "FALSE"
          [] k = <<"f","u","n">> -> "FUN"
          [] k = <<"f","o","r">> -> "FOR"
          [] k = <<"i","f">> -> "IF"
          [] k = <<"n","i","l">> -> "NIL"
          [] k = <<"o","r">> -> "OR"
          [] k = <<"p","r","i","n","t">> -> "PRINT"
          [] k = <<"r","e","t","u","r","n">> -> "RETURN"
          [] k = <<"s","u","p","e","r">> -> "SUPER"
          [] k = <<"t","h","i","s">> -> "THIS"
          [] k = <<"t","r","u","e">> -> "TRUE"
          [] k = <<"v","a","r">> -> "VAR"
          [] k = <<"w","h","i","l","e">> -> "WHILE"]

(***************************************************************************)
(* The scanner.  Every helper works on a scanner record                    *)
(*   [src, tokens, start, current, line, st, diag]                         *)
(* where st is "ok", "panic" (a Go run-time panic: index out of range) or  *)
(* "fatal" (log.Fatalf: the message is logged and the process exits).      *)
(***************************************************************************)
isAtEnd(ls) == ls.current >= Len(ls.src)

(* advance: source[current] panics when current is past the end *)
advance(ls) ==
    IF ls.current >= Len(ls.src) THEN [ls EXCEPT !.st = "panic"]
    ELSE [ls EXCEPT !.current = ls.current + 1]

peek(ls) == IF isAtEnd(ls) THEN "0" ELSE ls.src[ls.current + 1]

peekNext(ls) ==
    LET next == ls.current + 1
    IN  IF next >= Len(ls.src) THEN "0" ELSE ls.src[next + 1]

match(ls, expected) ==
    IF isAtEnd(ls) THEN FALSE
    ELSE ls.src[ls.current + 1] = expected

(* the scanner after a successful match: current++ *)
matched(ls) == [ls EXCEPT !.current = ls.current + 1]

addToken(ls, tokenType, literal) ==
    LET lexeme == SubSeq(ls.src, ls.start + 1, ls.current)
    IN  [ls EXCEPT !.tokens =
            Append(ls.tokens, Token(tokenType, lexeme, literal, ls.line))]

Fatalf(ls, msg) ==
    [ls EXCEPT !.st = "fatal",
               !.diag = Append(ls.diag, [msg |-> msg, line |-> ls.line])]

(* the loop of readString *)
RECURSIVE readStringLoop(_)
readStringLoop(ls) ==
    IF peek(ls) # "\"" /\ ~isAtEnd(ls)
    THEN LET l1 == IF peek(ls) = "\n" THEN [ls EXCEPT !.line = ls.line + 1]
                   ELSE ls
             l2 == advance(l1)
         IN  IF l2.st # "ok" THEN l2 ELSE readStringLoop(l2)
    ELSE ls

(* the slip of taking the lexeme, quotes included, as the literal *)
readStringKeepQuotes(ls) ==
    LET l1 == readStringLoop(ls)
    IN  IF l1.st # "ok" THEN l1
        ELSE IF isAtEnd(l1) THEN Fatalf(l1, "Unterminated string")
        ELSE LET l2    == advance(l1)
                 value == SubSeq(l2.src, l2.start + 1, l2.current)
             IN  addToken(l2, "STRING", StringLiteral(value))

readString(ls) ==
    LET l1 == readStringLoop(ls)
    IN  IF l1.st # "ok" THEN l1
        ELSE IF isAtEnd(l1) THEN Fatalf(l1, "Unterminated string")
        ELSE LET l2    == advance(l1)
                 value == SubSeq(l2.src, l2.start + 2, l2.current - 1)
             IN  addToken(l2, "STRING", StringLiteral(value))

(* for unicode.IsDigit(rune(ls.peek())) { ls.advance() } *)
RECURSIVE digitsLoop(_)
digitsLoop(ls) ==
    IF IsDigit(peek(ls))
    THEN LET l1 == advance(ls)
         IN  IF l1.st # "ok" THEN l1 ELSE digitsLoop(l1)
    ELSE ls

readNumber(ls) ==
    LET l1 == digitsLoop(ls)
        l2 == IF l1.st = "ok" /\ peek(l1) = "." /\ IsDigit(peekNext(l1))
              THEN LET l3 == advance(l1)
                   IN  IF l3.st # "ok" THEN l3 ELSE digitsLoop(l3)
              ELSE l1
    IN  IF l2.st # "ok" THEN l2
        ELSE LET lexeme == SubSeq(l2.src, l2.start + 1, l2.current)
             IN  addToken(l2, "NUMBER", FloatLiteral(ParseFloat(lexeme)))

RECURSIVE identLoop(_)
identLoop(ls) ==
    IF IsLetter(peek(ls)) \/ IsDigit(peek(ls)) \/ peek(ls) = "_"
    THEN LET l1 == advance(ls)
         IN  IF l1.st # "ok" THEN l1 ELSE identLoop(l1)
    ELSE ls

readIdentifier(ls) ==
    LET l1 == identLoop(ls)
    IN  IF l1.st # "ok" THEN l1
        ELSE LET val == SubSeq(l1.src, l1.start + 1, l1.current)
             IN  IF val \in DOMAIN keywordsMap
                 THEN addToken(l1, keywordsMap[val], StringLiteral(val))
                 ELSE addToken(l1, "IDENTIFIER", StringLiteral(val))

(* the comment loop of scan: for ls.peek() != '\n' && !ls.isAtEnd() *)
RECURSIVE commentLoop(_)
commentLoop(ls) ==
    IF peek(ls) # "\n" /\ ~isAtEnd(ls)
    THEN LET l1 == advance(ls)
         IN  IF l1.st # "ok" THEN l1 ELSE commentLoop(l1)
    ELSE ls

Ternary(cond, trueVal, falseVal) == IF cond THEN trueVal ELSE falseVal

(* one or two character operator: addToken(Ternary(match('='), two, one)) *)
twoChar(ls, two, one) ==
    IF match(ls, "=") THEN addToken(matched(ls), two, NoLiteral)
    ELSE addToken(ls, one, NoLiteral)

scan(ls0) ==
    LET ls == advance(ls0)
        ch == ls0.src[ls0.current + 1]
    IN  CASE ch = "(" -> addToken(ls, "LEFT_PAREN", NoLiteral)
          [] ch = ")" -> addToken(ls, "RIGHT_PAREN", NoLiteral)
          [] ch = "{" -> addToken(ls, "LEFT_BRACE", NoLiteral)
          [] ch = "}" -> addToken(ls, "RIGHT_BRACE", NoLiteral)
          [] ch = "," -> addToken(ls, "COMMA", NoLiteral)
          [] ch = "." -> addToken(ls, "DOT", NoLiteral)
          [] ch = "-" -> addToken(ls, "MINUS", NoLiteral)
          [] ch = "+" -> addToken(ls, "PLUS", NoLiteral)
          [] ch = ";" -> addToken(ls, "SEMICOLON", NoLiteral)
          [] ch = "*" -> addToken(ls, "STAR", NoLiteral)
          [] ch = "!" -> twoChar(ls, "BANG_EQUAL", "BANG")
          [] ch = "=" -> twoChar(ls, "EQUAL_EQUAL", "EQUAL")
          [] ch = ">" -> twoChar(ls, "GREATER_EQUAL", "GREATER")
          [] ch = "<" -> twoChar(ls, "LESS_EQUAL", "LESS")
          [] ch = "/" -> IF match(ls, "=") THEN commentLoop(matched(ls))
                         ELSE addToken(ls, "SLASH", NoLiteral)
          [] ch \in {" ", "\r", "\t"} -> ls
          [] ch = "\n" -> [ls EXCEPT !.line = ls.line + 1]
          [] ch = "\"" -> readString(ls)
          [] OTHER -> IF IsDigit(ch) THEN readNumber(ls)
                      ELSE IF IsLetter(ch) THEN readIdentifier(ls)
                      ELSE Fatalf(ls, "unexpected character")

NewLexScanner(input) ==
    [src |-> input, tokens |-> <<>>, start |-> 0, current |-> 0, line |-> 1,
     st |-> "ok", diag |-> <<>>]

(* the whole of ScanTokens, for the callers that run it in one step *)
RECURSIVE ScanTokens(_)
ScanTokens(ls) ==
    IF ls.st # "ok" THEN ls
    ELSE IF ~isAtEnd(ls)
         THEN ScanTokens(scan([ls EXCEPT !.start = ls.current]))
         ELSE addToken(ls, "EOF", NoLiteral)

(***************************************************************************)
(* Values (parser.Value).  NilPointer is the Go nil *Value, NilValue the   *)
(* value NewNilValue() builds.                                             *)
(***************************************************************************)
NilPointer == [kind |-> "nilptr"]

NewNilValue == [kind |-> "NilVal"]

NewStringValue(s) == [kind |-> "StrVal", v |-> s]

NewIntValue(i) == [kind |-> "IntVal", v |-> i]

NewFloatValue(f) == [kind |-> "FloatVal", v |-> f]

NewBoolValue(b) == [kind |-> "BoolVal", v |-> b]

(***************************************************************************)
(* Expressions and statements.  NilExpr is the nil Expr interface value.   *)
(***************************************************************************)
NilExpr == [type |-> "nil"]

Binary(left, operator, right) ==
    [type |-> "Binary", Left |-> left, Operator |-> operator, Right |-> right]

Unary(operator, right) ==
    [type |-> "Unary", Operator |-> operator, Right |-> right]

Literal(value) == [type |-> "Literal", Value |-> value]

Variable(name) == [type |-> "Variable", Name |-> name]

ExpressionStmt(expr) == [type |-> "EXPRESSION_STMT", Expr |-> expr]

PrintStmt(expr) == [type |-> "PRINT_STMT", Expr |-> expr]

VarStmt(name, expr) == [type |-> "VAR_STMT", Name |-> name, Expr |-> expr]

(***************************************************************************)
(* Results of the parser and of the interpreter are records with a field   *)
(* st: "ok", or how the call ended otherwise.  Then(r, K) is the rest K of *)
(* a function after a call that returned r: a call that did not return     *)
(* normally ends the caller the same way.                                  *)
(***************************************************************************)
Then(r, K(_)) == IF r.st # "ok" THEN r ELSE K(r)

(***************************************************************************)
(* The parser.  A parsing function takes the tokens and the 0-based        *)
(* position Parser.current and returns [node, cur, st, msg]: node is the   *)
(* expression or statement built, st is "ok", "fatal" (log.Fatal(err):     *)
(* the message is logged and the process exits) or "panic" (a failed type  *)
(* assertion).                                                             *)
(***************************************************************************)
pPeek(toks, cur) == toks[cur + 1]

pIsAtEnd(toks, cur) == pPeek(toks, cur).Type = "EOF"

check(toks, cur, tokenType) ==
    IF pIsAtEnd(toks, cur) THEN FALSE
    ELSE pPeek(toks, cur).Type = tokenType

(* match(tokens...): when it holds the parser advances by one token and    *)
(* previous() is the token at cur                                         *)
pMatch(toks, cur, types) == \E t \in types : check(toks, cur, t)

pOk(node, cur) == [node |-> node, cur |-> cur, st |-> "ok", msg |-> ""]

pFail(st, cur, msg) == [node |-> NilExpr, cur |-> cur, st |-> st, msg |-> msg]

(* consume(tokenType, message) *)
consume(toks, cur, tokenType, message) ==
    IF check(toks, cur, tokenType) THEN pOk(NilExpr, cur + 1)
    ELSE pFail("error", cur, message)

(* _, err := p.consume(...); if err != nil { log.Fatal(err) }, after r *)
consumeOrFatal(toks, r, tokenType, message) ==
    LET c == consume(toks, r.cur, tokenType, message)
    IN  IF c.st # "ok" THEN pFail("fatal", r.cur, c.msg)
        ELSE pOk(r.node, c.cur)

(* the Literal primary builds from a literal token *)
literalOf(token, cur) ==
    CASE token.Type = "NUMBER" ->
            IF token.Literal.t = "float64"
            THEN pOk(Literal(NewFloatValue(token.Literal.v)), cur)
            ELSE pFail("panic", cur, "interface conversion")
      [] token.Type = "STRING" ->
            IF token.Literal.t = "string"
            THEN pOk(Literal(NewStringValue(token.Literal.v)), cur)
            ELSE pFail("panic", cur, "interface conversion")
      [] token.Type \in {"TRUE", "FALSE"} ->
            IF token.Literal.t = "bool"
            THEN pOk(Literal(NewBoolValue(token.Literal.v)), cur)
            ELSE pFail("panic", cur, "interface conversion")
      [] OTHER -> pOk(Literal(NilPointer), cur)

RECURSIVE expression(_, _)

primary(toks, cur) ==
    IF pMatch(toks, cur, {"NUMBER", "STRING", "TRUE", "FALSE", "NIL"})
    THEN literalOf(toks[cur + 1], cur + 1)
    ELSE IF pMatch(toks, cur, {"IDENTIFIER"})
    THEN pOk(Variable(toks[cur + 1].Lexeme), cur + 1)
    ELSE IF pMatch(toks, cur, {"LEFT_PAREN"})
    THEN Then(expression(toks, cur + 1),
              LAMBDA e : consumeOrFatal(toks, e, "RIGHT_PAREN",
                                        "expect ')' after expression"))
    ELSE pOk(NilExpr, cur)

RECURSIVE unary(_, _)
unary(toks, cur) ==
    IF pMatch(toks, cur, {"BANG", "MINUS"})
    THEN Then(unary(toks, cur + 1),
              LAMBDA right : pOk(Unary(toks[cur + 1], right.node), right.cur))
    ELSE primary(toks, cur)

(* expr = &Binary{Left: expr, Operator: &operator, Right: right}, where the *)
(* operator is the token at l.cur                                          *)
fold(toks, l, right) ==
    pOk(Binary(l.node, toks[l.cur + 1], right.node), right.cur)

(* the flat-precedence slip: the factor loop also takes '+' and '-' *)
RECURSIVE factorFlatLoop(_, _)
factorFlatLoop(toks, l) ==
    IF l.st # "ok" THEN l
    ELSE IF pMatch(toks, l.cur, {"SLASH", "STAR", "PLUS", "MINUS"})
    THEN factorFlatLoop(toks, Then(unary(toks, l.cur + 1),
                                   LAMBDA right : fold(toks, l, right)))
    ELSE l

factorFlat(toks, cur) == factorFlatLoop(toks, unary(toks, cur))

(* for p.match(SLASH, STAR) { ... } *)
RECURSIVE factorLoop(_, _)
factorLoop(toks, l) ==
    IF l.st # "ok" THEN l
    ELSE IF pMatch(toks, l.cur, {"SLASH", "STAR"})
    THEN factorLoop(toks, Then(unary(toks, l.cur + 1),
                               LAMBDA right : fold(toks, l, right)))
    ELSE l

factor(toks, cur) == factorLoop(toks, unary(toks, cur))

(* the right-recursive slip: the right operand of a term is a whole term *)
RECURSIVE termRightAssoc(_, _)
termRightAssoc(toks, cur) ==
    Then(factor(toks, cur),
         LAMBDA l : IF pMatch(toks, l.cur, {"MINUS", "PLUS"})
                    THEN Then(termRightAssoc(toks, l.cur + 1),
                              LAMBDA right : fold(toks, l, right))
                    ELSE l)

(* for p.match(MINUS, PLUS) { ... } *)
RECURSIVE termLoop(_, _)
termLoop(toks, l) ==
    IF l.st # "ok" THEN l
    ELSE IF pMatch(toks, l.cur, {"MINUS", "PLUS"})
    THEN termLoop(toks, Then(factor(toks, l.cur + 1),
                             LAMBDA right : fold(toks, l, right)))
    ELSE l

term(toks, cur) == termLoop(toks, factor(toks, cur))

RECURSIVE comparisonLoop(_, _)
comparisonLoop(toks, l) ==
    IF l.st # "ok" THEN l
    ELSE IF pMatch(toks, l.cur,
                   {"GREATER", "GREATER_EQUAL", "LESS", "LESS_EQUAL"})
    THEN comparisonLoop(toks, Then(term(toks, l.cur + 1),
                                   LAMBDA right : fold(toks, l, right)))
    ELSE l

comparison(toks, cur) == comparisonLoop(toks, term(toks, cur))

RECURSIVE equalityLoop(_, _)
equalityLoop(toks, l) ==
    IF l.st # "ok" THEN l
    ELSE IF pMatch(toks, l.cur, {"BANG_EQUAL", "EQUAL_EQUAL"})
    THEN equalityLoop(toks, Then(comparison(toks, l.cur + 1),
                                 LAMBDA right : fold(toks, l, right)))
    ELSE l

equality(toks, cur) == equalityLoop(toks, comparison(toks, cur))

expression(toks, cur) == equality(toks, cur)

ParseExpression(toks, cur) == expression(toks, cur)

NoStmt == [type |-> "none"]

(* expression, then consume(SEMICOLON) or log.Fatal *)
exprThenSemicolon(toks, cur) ==
    Then(ParseExpression(toks, cur),
         LAMBDA e : consumeOrFatal(toks, e, "SEMICOLON",
                                   "expect ';' after expression"))

printStatement(toks, cur) ==
    Then(exprThenSemicolon(toks, cur),
         LAMBDA e : pOk(PrintStmt(e.node), e.cur))

expressionStatement(toks, cur) ==
    Then(exprThenSemicolon(toks, cur),
         LAMBDA e : pOk(ExpressionStmt(e.node), e.cur))

(* if p.match(EQUAL) { initializer = p.ParseExpression() } *)
initializer(toks, cur) ==
    IF pMatch(toks, cur, {"EQUAL"}) THEN ParseExpression(toks, cur + 1)
    ELSE pOk(NilExpr, cur)

varDeclaration(toks, cur) ==
    IF ~check(toks, cur, "IDENTIFIER")
    THEN pFail("fatal", cur, "expect variable name")
    ELSE Then(Then(initializer(toks, cur + 1),
                   LAMBDA i : consumeOrFatal(toks, i, "SEMICOLON",
                                             "expect ';' after expression")),
              LAMBDA i : pOk(VarStmt(toks[cur + 1], i.node), i.cur))

statement(toks, cur) ==
    IF pMatch(toks, cur, {"PRINT"}) THEN printStatement(toks, cur + 1)
    ELSE expressionStatement(toks, cur)

declaration(toks, cur) ==
    IF pMatch(toks, cur, {"VAR"}) THEN varDeclaration(toks, cur + 1)
    ELSE statement(toks, cur)

(* Parse: for !p.isAtEnd() { stmts = append(stmts, p.declaration()) };     *)
(* acc is the result so far, its node the statements parsed                *)
RECURSIVE ParseLoop(_, _)
ParseLoop(toks, acc) ==
    IF acc.st # "ok" \/ pIsAtEnd(toks, acc.cur) THEN acc
    ELSE ParseLoop(toks,
            Then(declaration(toks, acc.cur),
                 LAMBDA d : pOk(Append(acc.node, d.node), d.cur)))

(* returns [node, cur, st, msg], node the statements *)
Parse(toks) == ParseLoop(toks, pOk(<<>>, 0))

(***************************************************************************)
(* float64 arithmetic on the rationals <<n, d>>.                           *)
(***************************************************************************)
NaN == <<0, 0>>

fIsNaN(a) == a = NaN

fIsInf(a) == a[2] = 0 /\ a[1] # 0

fNeg(a) == <<-a[1], a[2]>>

fAdd(a, b) ==
    IF fIsNaN(a) \/ fIsNaN(b) THEN NaN
    ELSE IF fIsInf(a) THEN (IF fIsInf(b) /\ b # a THEN NaN ELSE a)
    ELSE IF fIsInf(b) THEN b
    ELSE Norm(a[1] * b[2] + b[1] * a[2], a[2] * b[2])

fSub(a, b) == fAdd(a, fNeg(b))

fMul(a, b) ==
    IF fIsNaN(a) \/ fIsNaN(b) THEN NaN
    ELSE IF fIsInf(a) \/ fIsInf(b) THEN <<Sign(a[1]) * Sign(b[1]), 0>>
    ELSE Norm(a[1] * b[1], a[2] * b[2])

fDiv(a, b) ==
    IF fIsNaN(a) \/ fIsNaN(b) THEN NaN
    ELSE IF fIsInf(a)
         THEN (IF fIsInf(b) THEN NaN
               ELSE <<a[1] * (IF b[1] < 0 THEN -1 ELSE 1), 0>>)
    ELSE IF fIsInf(b) THEN <<0, 1>>
    ELSE Norm(a[1] * b[2], a[2] * b[1])

fRank(a) == IF a[2] = 0 THEN 2 * a[1] ELSE 0

fLess(a, b) ==
    IF fIsNaN(a) \/ fIsNaN(b) THEN FALSE
    ELSE IF a[2] = 0 \/ b[2] = 0 THEN fRank(a) < fRank(b)
    ELSE a[1] * b[2] < b[1] * a[2]

fEq(a, b) == ~fIsNaN(a) /\ ~fIsNaN(b) /\ a = b

(***************************************************************************)
(* Textual representation of values.                                       *)
(***************************************************************************)
DigitChar(d) ==
    CASE d = 0 -> "0" [] d = 1 -> "1" [] d = 2 -> "2" [] d = 3 -> "3"
      [] d = 4 -> "4" [] d = 5 -> "5" [] d = 6 -> "6" [] d = 7 -> "7"
      [] d = 8 -> "8" [] d = 9 -> "9"

RECURSIVE NatToStr(_)
NatToStr(n) ==
    IF n < 10 THEN <<DigitChar(n)>>
    ELSE NatToStr(n \div 10) \o <<DigitChar(n % 10)>>

(* strconv.Itoa *)
Itoa(i) == IF i < 0 THEN <<"-">> \o NatToStr(-i) ELSE NatToStr(i)

(* the first k decimal digits of r/d (0 <= r < d), trailing zeros dropped *)
RECURSIVE FracDigits(_, _, _)
FracDigits(r, d, k) ==
    IF r = 0 \/ k = 0 THEN <<>>
    ELSE <<DigitChar((10 * r) \div d)>> \o FracDigits((10 * r) % d, d, k - 1)

(* fmt.Sprintf("%g", f) for the magnitudes the model reaches (no exponent  *)
(* form); a non-terminating expansion is cut after 16 digits               *)
FormatG(f) ==
    IF fIsNaN(f) THEN <<"N", "a", "N">>
    ELSE IF f[2] = 0
         THEN (IF f[1] > 0 THEN <<"+", "I", "n", "f">>
               ELSE <<"-", "I", "n", "f">>)
    ELSE LET n  == Abs(f[1])
             sg == IF f[1] < 0 THEN <<"-">> ELSE <<>>
             intp == NatToStr(n \div f[2])
             fr == FracDigits(n % f[2], f[2], 16)
         IN  sg \o intp \o (IF fr = <<>> THEN <<>> ELSE <<".">> \o fr)

(* fmt.Sprintf("%q", s): quoted, with '"', '\' and newline escaped *)
RECURSIVE EscapeQ(_)
EscapeQ(s) ==
    IF s = <<>> THEN <<>>
    ELSE (CASE s[1] = "\"" -> <<"\\", "\"">>
            [] s[1] = "\\" -> <<"\\", "\\">>
            [] s[1] = "\n" -> <<"\\", "n">>
            [] OTHER -> <<s[1]>>) \o EscapeQ(Tail(s))

FormatQ(s) == <<"\"">> \o EscapeQ(s) \o <<"\"">>

FormatBool(b) == IF b THEN <<"t", "r", "u", "e">> ELSE <<"f", "a", "l", "s", "e">>

(* Value.String, for a non-nil receiver *)
String(v) ==
    CASE v.kind = "StrVal" -> FormatQ(v.v)
      [] v.kind = "IntVal" -> Itoa(v.v)
      [] v.kind = "FloatVal" -> FormatG(v.v)
      [] v.kind = "BoolVal" -> FormatBool(v.v)
      [] OTHER -> <<"n", "i", "l">>

IsNumber(v) == v.kind \in {"IntVal", "FloatVal"}

IsString(v) == v.kind = "StrVal"

IsBool(v) == v.kind = "BoolVal"

IsNil(v) == v.kind \notin {"StrVal", "IntVal", "FloatVal", "BoolVal"}

(* ToFloat64 of a number or a boolean *)
ToFloat64(v) ==
    CASE v.kind = "FloatVal" -> v.v
      [] v.kind = "IntVal" -> <<v.v, 1>>
      [] v.kind = "BoolVal" -> IF v.v THEN <<1, 1>> ELSE <<0, 1>>

IsTruthy(v) ==
    CASE v.kind = "BoolVal" -> v.v
      [] v.kind = "IntVal" -> v.v # 0
      [] v.kind = "FloatVal" -> v.v # <<0, 1>>
      [] v.kind = "StrVal" -> v.v # <<>>
      [] OTHER -> FALSE

(***************************************************************************)
(* The environment.                                                        *)
(***************************************************************************)
NewEnv == [n \in {} |-> NilPointer]

(* the slip of replacing the map instead of adding to it *)
DefineAlone(e, name, value) == [n \in {name} |-> value]

Define(e, name, value) ==
    [n \in DOMAIN e \cup {name} |-> IF n = name THEN value ELSE e[n]]

(* a Go map read: the zero value, a nil pointer, for a missing key *)
Get(e, name) == IF name \in DOMAIN e THEN e[name] ELSE NilPointer

(***************************************************************************)
(* The interpreter.  Evaluation returns [v, st, msg]: st is "ok" or        *)
(* "panic"; a method called on the nil *Value panics with a nil pointer    *)
(* dereference.                                                            *)
(***************************************************************************)
vOk(v) == [v |-> v, st |-> "ok", msg |-> ""]

vPanic(msg) == [v |-> NilPointer, st |-> "panic", msg |-> msg]

NilDeref == vPanic("nil pointer dereference")

checkNumberOperand(value) ==
    IF value = NilPointer THEN NilDeref
    ELSE IF ~IsNumber(value) THEN vPanic("Operand must be a number")
    ELSE vOk(value)

checkNumberOperands(left, right) ==
    IF left = NilPointer THEN NilDeref
    ELSE IF ~IsNumber(left) THEN vPanic("Operands must be numbers")
    ELSE IF right = NilPointer THEN NilDeref
    ELSE IF ~IsNumber(right) THEN vPanic("Operands must be numbers")
    ELSE vOk(left)

add(left, right) ==
    IF left = NilPointer THEN NilDeref
    ELSE IF IsNumber(left) /\ right = NilPointer THEN NilDeref
    ELSE IF IsNumber(left) /\ IsNumber(right)
         THEN vOk(NewFloatValue(fAdd(ToFloat64(left), ToFloat64(right))))
    ELSE IF IsString(left) /\ right = NilPointer THEN NilDeref
    ELSE IF IsString(left) /\ IsString(right)
         THEN vOk(NewStringValue(left.v \o right.v))
    ELSE vPanic("Operands must be two numbers or two strings")

subtract(left, right) ==
    LET c == checkNumberOperands(left, right)
    IN  IF c.st # "ok" THEN c
        ELSE vOk(NewFloatValue(fSub(ToFloat64(left), ToFloat64(right))))

multiply(left, right) ==
    LET c == checkNumberOperands(left, right)
    IN  IF c.st # "ok" THEN c
        ELSE vOk(NewFloatValue(fMul(ToFloat64(left), ToFloat64(right))))

divide(left, right) ==
    LET c == checkNumberOperands(left, right)
    IN  IF c.st # "ok" THEN c
        ELSE vOk(NewFloatValue(fDiv(ToFloat64(left), ToFloat64(right))))

greater(left, right) ==
    LET c == checkNumberOperands(left, right)
    IN  IF c.st # "ok" THEN c
        ELSE vOk(NewBoolValue(fLess(ToFloat64(right), ToFloat64(left))))

greaterEqual(left, right) ==
    LET c == checkNumberOperands(left, right)
    IN  IF c.st # "ok" THEN c
        ELSE vOk(NewBoolValue(fLess(ToFloat64(right), ToFloat64(left))
                                \/ fEq(ToFloat64(left), ToFloat64(right))))

less(left, right) ==
    LET c == checkNumberOperands(left, right)
    IN  IF c.st # "ok" THEN c
        ELSE vOk(NewBoolValue(fLess(ToFloat64(left), ToFloat64(right))))

lessEqual(left, right) ==
    LET c == checkNumberOperands(left, right)
    IN  IF c.st # "ok" THEN c
        ELSE vOk(NewBoolValue(fLess(ToFloat64(left), ToFloat64(right))
                                \/ fEq(ToFloat64(left), ToFloat64(right))))

equal(left, right) ==
    IF left = NilPointer THEN NilDeref
    ELSE IF IsNil(left)
         THEN (IF right = NilPointer THEN NilDeref
               ELSE vOk(NewBoolValue(IsNil(right))))
    ELSE IF right = NilPointer THEN NilDeref
    ELSE vOk(NewBoolValue(String(left) = String(right)))

notEqual(left, right) ==
    Then(equal(left, right), LAMBDA e : vOk(NewBoolValue(~IsTruthy(e.v))))

negate(value) ==
    LET c == checkNumberOperand(value)
    IN  IF c.st # "ok" THEN c
        ELSE vOk(NewFloatValue(fNeg(ToFloat64(value))))

logicalNot(value) ==
    IF value = NilPointer THEN NilDeref
    ELSE vOk(NewBoolValue(~IsTruthy(value)))

evaluateBinaryOp(left, right, operator) ==
    CASE operator.Type = "PLUS" -> add(left, right)
      [] operator.Type = "MINUS" -> subtract(left, right)
      [] operator.Type = "STAR" -> multiply(left, right)
      [] operator.Type = "SLASH" -> divide(left, right)
      [] operator.Type = "GREATER" -> greater(left, right)
      [] operator.Type = "GREATER_EQUAL" -> greaterEqual(left, right)
      [] operator.Type = "LESS" -> less(left, right)
      [] operator.Type = "LESS_EQUAL" -> lessEqual(left, right)
      [] operator.Type = "EQUAL_EQUAL" -> equal(left, right)
      [] operator.Type = "BANG_EQUAL" -> notEqual(left, right)
      [] OTHER -> vPanic("Unknown binary operator")

evaluateUnaryOp(right, operator) ==
    CASE operator.Type = "MINUS" -> negate(right)
      [] operator.Type = "BANG" -> logicalNot(right)
      [] OTHER -> vPanic("Unknown unary operator")

VisitLiteral(expr) == vOk(expr.Value)

VisitVariable(expr, e) ==
    LET value == Get(e, expr.Name)
    IN  IF value = NilPointer THEN NilDeref
        ELSE IF IsNil(value) THEN vOk(NewNilValue)
        ELSE vOk(value)

(* expr.Accept(i), with VisitBinary and VisitUnary *)
RECURSIVE Accept(_, _)
Accept(expr, e) ==
    CASE expr.type = "Binary" ->
            Then(Accept(expr.Left, e),
                 LAMBDA left :
                    Then(Accept(expr.Right, e),
                         LAMBDA right :
                            evaluateBinaryOp(left.v, right.v, expr.Operator)))
      [] expr.type = "Unary" ->
            Then(Accept(expr.Right, e),
                 LAMBDA right : evaluateUnaryOp(right.v, expr.Operator))
      [] expr.type = "Literal" -> VisitLiteral(expr)
      [] expr.type = "Variable" -> VisitVariable(expr, e)
      [] OTHER -> NilDeref

(* Statement execution returns [v, st, msg, env, out]. *)
xOk(v, e, o) == [v |-> v, st |-> "ok", msg |-> "", env |-> e, out |-> o]

xPanic(r, e) == [v |-> NilPointer, st |-> "panic", msg |-> r.msg,
                 env |-> e, out |-> <<>>]

(* the rest K of a visitor after the evaluation that returned r *)
xThen(r, e, K(_)) == IF r.st # "ok" THEN xPanic(r, e) ELSE K(r)

VisitExpressionStmt(stmt, e) ==
    xThen(Accept(stmt.Expr, e), e, LAMBDA r : xOk(r.v, e, <<>>))

VisitPrintStmt(stmt, e) ==
    xThen(Accept(stmt.Expr, e), e,
          LAMBDA r : IF r.v = NilPointer THEN xPanic(NilDeref, e)
                     ELSE xOk(r.v, e, <<String(r.v)>>))

VisitVarStmt(stmt, e) ==
    xThen(IF stmt.Expr # NilExpr THEN Accept(stmt.Expr, e)
          ELSE vOk(NewNilValue),
          e, LAMBDA r : xOk(r.v, Define(e, stmt.Name.Lexeme, r.v), <<>>))

StmtAccept(stmt, e) ==
    CASE stmt.type = "EXPRESSION_STMT" -> VisitExpressionStmt(stmt, e)
      [] stmt.type = "PRINT_STMT" -> VisitPrintStmt(stmt, e)
      [] stmt.type = "VAR_STMT" -> VisitVarStmt(stmt, e)

(* if i.mode == ModePrompt && stmt.Type() == EXPRESSION_STMT { Println } *)
echo(stmt, r, m) ==
    IF m = "ModePrompt" /\ stmt.type = "EXPRESSION_STMT"
    THEN [r EXCEPT !.out =
             Append(r.out, IF r.v = NilPointer THEN <<"n", "i", "l">>
                           ELSE String(r.v))]
    ELSE r

(* the body of the loop of Interpret: execute, then echo in prompt mode *)
InterpretOne(stmt, e, m) ==
    Then(StmtAccept(stmt, e), LAMBDA r : echo(stmt, r, m))

(***************************************************************************)
(* The scanner as a state machine: one step per iteration of the loop of   *)
(* ScanTokens, and one for its return.                                     *)
(***************************************************************************)
Scanner == [src |-> source, tokens |-> tokens, start |-> start,
            current |-> current, line |-> line, st |-> "ok", diag |-> diag]

NoResult == [stmt |-> NoStmt, st |-> "none", v |-> NilPointer, msg |-> ""]

SetScanner(r, nextPc) ==
    /\ tokens' = r.tokens
    /\ start' = r.start
    /\ current' = r.current
    /\ line' = r.line
    /\ diag' = r.diag
    /\ pc' = IF r.st = "ok" THEN nextPc ELSE r.st
    /\ UNCHANGED <<source, stmts, ip, env, mode, out, last, decl, nlines>>

(* for !ls.isAtEnd() { ls.start = ls.current; ls.scan() } *)
ScanStep ==
    /\ pc = "scan"
    /\ ~isAtEnd(Scanner)
    /\ SetScanner(scan([Scanner EXCEPT !.start = current]), "scan")

(* ls.addToken(EOF, nil); return ls.tokens *)
ScanTokensReturn ==
    /\ pc = "scan"
    /\ isAtEnd(Scanner)
    /\ SetScanner(addToken(Scanner, "EOF", NoLiteral), "scanned")

ScanAlphabet == {"1", "5", ".", "a", "_", "\"", "\\", "\n", " ", "@", "=", "/"}

StringsUpTo(n) == UNION {[1..k -> ScanAlphabet] : k \in 0..n}

Quoted(s) == <<"\"">> \o s \o <<"\"">>

Sources ==
    StringsUpTo(MaxLen)
      \cup {Quoted(s) : s \in StringsUpTo(MaxLen)}
      \cup {k \o t : k \in DOMAIN keywordsMap, t \in StringsUpTo(1)}

InitScan ==
    /\ source \in Sources
    /\ tokens = <<>>
    /\ start = 0
    /\ current = 0
    /\ line = 1
    /\ pc = "scan"
    /\ diag = <<>>
    /\ stmts = <<>>
    /\ ip = 0
    /\ env = NewEnv
    /\ mode = "ModePrompt"
    /\ out = <<>>
    /\ last = NoResult
    /\ decl = NewEnv
    /\ nlines = 0

NextScan == ScanStep \/ ScanTokensReturn

SpecScan == InitScan /\ [][NextScan]_vars

ScanEnded == {"scanned", "panic", "fatal"}

(***************************************************************************)
(* Claims about the scanner.                                               *)
(***************************************************************************)
IsNumberOrIdentifierRun(s) ==
    /\ s # <<>>
    /\ \A i \in 1..Len(s) : IsDigit(s[i]) \/ IsLetter(s[i])

(* C1: for every source ScanTokens returns a token sequence ending with    *)
(* EOF; stated for the sources the claim singles out, those that end in    *)
(* the middle of a number or identifier.                                   *)
C1_ScanTokensEndsWithEOF ==
    (IsNumberOrIdentifierRun(source) /\ pc \in ScanEnded)
        => /\ pc = "scanned"
           /\ tokens # <<>>
           /\ tokens[Len(tokens)].Type = "EOF"

(* C2: a lexical error is reported and does not abort the scan: once an    *)
(* error has been logged the scanner is still scanning or has returned.    *)
C2_LexErrorDoesNotAbort ==
    diag # <<>> => pc \in {"scan", "scanned"}

IsDigitRun(s) == s # <<>> /\ \A i \in 1..Len(s) : IsDigit(s[i])

IsNumericLiteral(s) ==
    \/ IsDigitRun(s)
    \/ \E p \in 1..Len(s) :
          /\ s[p] = "."
          /\ IsDigitRun(SubSeq(s, 1, p - 1))
          /\ IsDigitRun(SubSeq(s, p + 1, Len(s)))

(* C3: scanning a valid numeric literal N yields exactly one NUMBER token  *)
(* with lexeme N and literal the value of N, followed only by EOF.         *)
C3_NumberLiteralScans ==
    (IsNumericLiteral(source) /\ pc \in ScanEnded)
        => /\ pc = "scanned"
           /\ Len(tokens) = 2
           /\ tokens[1].Type = "NUMBER"
           /\ tokens[1].Lexeme = source
           /\ tokens[1].Literal = FloatLiteral(ParseFloat(source))
           /\ tokens[2].Type = "EOF"

IsIdentifierRun(s) ==
    /\ s # <<>>
    /\ IsLetter(s[1])
    /\ \A i \in 1..Len(s) : IsLetter(s[i]) \/ IsDigit(s[i]) \/ s[i] = "_"

(* C4: a source that is exactly a keyword yields one token of the keyword  *)
(* kind and then EOF; any other run of letters, digits and underscores     *)
(* that starts with a letter yields one IDENTIFIER with the run as lexeme. *)
C4_KeywordOrIdentifier ==
    (IsIdentifierRun(source) /\ pc \in ScanEnded)
        => /\ pc = "scanned"
           /\ Len(tokens) = 2
           /\ tokens[1].Lexeme = source
           /\ tokens[1].Type = IF source \in DOMAIN keywordsMap
                               THEN keywordsMap[source] ELSE "IDENTIFIER"
           /\ tokens[2].Type = "EOF"

(* number of consecutive backslashes of s that end at position i *)
RECURSIVE BackslashesBefore(_, _)
BackslashesBefore(s, i) ==
    IF i >= 1 /\ s[i] = "\\" THEN 1 + BackslashesBefore(s, i - 1) ELSE 0

NoUnescapedQuote(s) ==
    \A i \in 1..Len(s) : s[i] = "\"" => BackslashesBefore(s, i - 1) % 2 = 1

NoQuote(s) == \A i \in 1..Len(s) : s[i] # "\""

IsQuoted(s) == Len(s) >= 2 /\ s[1] = "\"" /\ s[Len(s)] = "\""

Body(s) == SubSeq(s, 2, Len(s) - 1)

OneStringToken(s) ==
    /\ pc = "scanned"
    /\ Len(tokens) = 2
    /\ tokens[1].Type = "STRING"
    /\ tokens[1].Lexeme = s
    /\ tokens[1].Literal = StringLiteral(Body(s))
    /\ tokens[2].Type = "EOF"

(* C5 as claimed: for every S without an unescaped double quote (S may     *)
(* hold backslash-escaped quotes), scanning "S" yields exactly one STRING  *)
(* token whose literal is S.                                               *)
C5_Original_EscapedQuotes ==
    (IsQuoted(source) /\ NoUnescapedQuote(Body(source)) /\ pc \in ScanEnded)
        => OneStringToken(source)

(* C5 as amended: for every S that holds no double quote at all (newlines  *)
(* and backslashes allowed), scanning "S" yields exactly one STRING token  *)
(* whose literal is S, without the surrounding quotes.                     *)
C5_StringLiteralScans ==
    (IsQuoted(source) /\ NoQuote(Body(source)) /\ pc \in ScanEnded)
        => OneStringToken(source)

C5_Witness ==
    /\ pc = "scanned"
    /\ IsQuoted(source)
    /\ NoQuote(Body(source))
    /\ \E i, j \in 1..Len(source) : source[i] = "\n" /\ source[j] = "\\"
    /\ tokens[1].Literal = StringLiteral(Body(source))

(***************************************************************************)
(* The prompt loop (cmd/main.go, runPrompt): each line is scanned, parsed  *)
(* and interpreted against the environment of one Interpreter.  The line,  *)
(* its tokens and its statements are locals of one iteration.              *)
(***************************************************************************)
IsSpace(ch) == ch \in {" ", "\t", "\n", "\r"}

RECURSIVE TrimLeft(_)
TrimLeft(s) ==
    IF s # <<>> /\ IsSpace(s[1]) THEN TrimLeft(Tail(s)) ELSE s

RECURSIVE TrimRight(_)
TrimRight(s) ==
    IF s # <<>> /\ IsSpace(s[Len(s)])
    THEN TrimRight(SubSeq(s, 1, Len(s) - 1)) ELSE s

TrimSpace(s) == TrimRight(TrimLeft(s))

(* words of the input lines *)
wVar == <<"v", "a", "r">>

wPrint == <<"p", "r", "i", "n", "t">>

wNil == <<"n", "i", "l">>

wTrue == <<"t", "r", "u", "e">>

wFalse == <<"f", "a", "l", "s", "e">>

wExit == <<"e", "x", "i", "t">>

wStrA == <<"\"", "a", "\"">>

wStrB == <<"\"", "b", "\"">>

wStrEmpty == <<"\"", "\"">>

(* the words separated by blanks, closed by the newline ReadString keeps *)
RECURSIVE Join(_)
Join(ws) ==
    IF ws = <<>> THEN <<"\n">> ELSE ws[1] \o <<" ">> \o Join(Tail(ws))

BinOpWords ==
    {<<<<"+">>>>, <<<<"-">>>>, <<<<"*">>>>, <<<<"/">>>>, <<<<">">>>>,
     <<<<">", "=">>>>, <<<<"<">>>>, <<<<"<", "=">>>>, <<<<"=", "=">>>>,
     <<<<"!", "=">>>>}

TripleOperands ==
    {<< <<"1">>, <<"2">>, <<"3">> >>, << <<"8">>, <<"3">>, <<"2">> >>,
     << <<"2">>, <<"3">>, <<"8">> >>, << <<"3">>, <<"1">>, <<"2">> >>,
     << <<"x">>, wStrA, <<"1">> >>, << wStrA, wStrB, <<"y">> >>}

(* a op1 b op2 c ; *)
TripleLines ==
    {<<t[1]>> \o o1 \o <<t[2]>> \o o2 \o <<t[3], <<";">> >> :
        t \in TripleOperands, o1 \in BinOpWords, o2 \in BinOpWords}

ExprWords ==
    {<< <<"5">> >>, << wStrA >>, << wNil >>, << <<"x">> >>, << <<"y">> >>,
     << <<"x">>, <<"+">>, <<"1">> >>}

StmtWords ==
    {<<wVar, <<"x">>, <<"=">> >> \o e \o << <<";">> >> : e \in ExprWords}
      \cup {<<wVar, <<"x">>, <<";">> >>}
      \cup {<<wPrint>> \o e \o << <<";">> >> : e \in ExprWords}
      \cup {e \o << <<";">> >> : e \in ExprWords}

OtherLines ==
    {<< <<"(">>, <<"1">>, <<"+">>, <<"2">> >>,
     << <<"(">>, <<"1">>, <<"+">>, <<"2">>, <<";">> >>,
     << <<"(">>, <<"1">>, <<"+">>, <<"2">>, <<")">>, <<"*">>, <<"3">>, <<";">> >>,
     << <<";">> >>,
     << wPrint, <<";">> >>,
     << <<"1">>, <<"+">>, <<";">> >>,
     << <<"(">>, <<")">>, <<";">> >>,
     << wPrint, wTrue, <<";">> >>,
     << wPrint, wFalse, <<";">> >>,
     << <<"!">>, <<"0">>, <<";">> >>,
     << <<"!">>, wStrEmpty, <<";">> >>,
     << <<"!">>, wStrA, <<";">> >>,
     << <<"!">>, wNil, <<";">> >>,
     << <<"-">>, <<"1">>, <<";">> >>,
     << <<"-">>, wStrA, <<";">> >>,
     << <<"!">>, <<"!">>, <<"x">>, <<";">> >>,
     << wStrA, <<"+">>, wStrB, <<";">> >>,
     << wStrA, <<"+">>, <<"1">>, <<";">> >>,
     << <<"1">>, <<"=", "=">>, <<"1", ".", "0">>, <<";">> >>,
     << <<"1">>, <<"=", "=">>, <<"\"", "1", "\"">>, <<";">> >>,
     << wNil, <<"=", "=">>, wNil, <<";">> >>,
     << <<"x">>, <<"=", "=">>, <<"y">>, <<";">> >>,
     << <<"1">>, <<"/">>, <<"0">>, <<";">> >>,
     << <<"1">>, <<"/">>, <<"2">>, <<";">> >>,
     << <<"x">>, <<"=">>, <<"2">>, <<";">> >>,
     << wVar, <<"x">>, <<"=">>, <<"1">>, <<";">>, <<"x">>, <<"=">>, <<"2">>,
        <<";">>, <<"x">>, <<";">> >>,
     << wVar, <<"y">>, <<"=">>, <<"2">>, <<";">> >>,
     << wVar, <<"y">>, <<"=">>, <<"x">>, <<"+">>, <<"1">>, <<";">> >>,
     << wVar, <<"=">>, <<"1">>, <<";">> >>,
     << wVar, <<"y">>, <<"=">>, <<"1">> >>,
     << <<"1">>, <<"@">> >>,
     << <<"\"", "a">> >>,
     << wExit >>}

(* operand words: literals of every kind and the variable x *)
OperandWords ==
    {<<"1">>, <<"1", ".", "0">>, <<"2">>, <<"\"", "1", "\"">>, wStrA,
     wStrEmpty, wTrue, wFalse, wNil, <<"x">>}

PairOperands == OperandWords \ {wStrEmpty, wFalse}

(* a op b ; *)
PairLines ==
    {<<a>> \o o \o <<b, <<";">> >> :
        a \in PairOperands, o \in BinOpWords, b \in PairOperands}

(* op a ; *)
UnaryLines ==
    {<<o, a, <<";">> >> : o \in {<<"!">>, <<"-">>}, a \in OperandWords}

Lines ==
    {Join(ws) : ws \in TripleLines \cup PairLines \cup UnaryLines
                       \cup StmtWords \cup OtherLines}
      \cup {Join(a \o b) : a \in StmtWords, b \in StmtWords}

ClearLine ==
    /\ source' = <<>>
    /\ tokens' = <<>>
    /\ start' = 0
    /\ current' = 0
    /\ line' = 1
    /\ stmts' = <<>>
    /\ ip' = 0
    /\ last' = NoResult

(* strings.TrimSpace(input) == "exit": Goodbye!, and the loop ends *)
RunPromptExit(input) ==
    /\ pc = "prompt"
    /\ nlines < MaxLines
    /\ TrimSpace(input) = wExit
    /\ pc' = "exited"
    /\ nlines' = nlines + 1
    /\ out' = <<<<"G", "o", "o", "d", "b", "y", "e", "!">>>>
    /\ diag' = <<>>
    /\ ClearLine
    /\ UNCHANGED <<env, mode, decl>>

(* lexScanner.ScanTokens() and parser.Parse() of one line: the scanner  *)
(* as it ends, with the parser's result when the scan returned            *)
scanned(ls) ==
    [ls |-> ls, st |-> ls.st, diag |-> ls.diag, stmts |-> <<>>]

parsed(ls, p) ==
    [ls |-> ls, st |-> p.st,
     diag |-> IF p.st = "fatal" THEN <<[msg |-> p.msg]>> ELSE <<>>,
     stmts |-> IF p.st = "ok" THEN p.node ELSE <<>>]

ScanAndParse(input) ==
    Then(scanned(ScanTokens(NewLexScanner(input))),
         LAMBDA s : parsed(s.ls, Parse(s.ls.tokens)))

(* one line is read: NewLexScanner, ScanTokens, NewParser, Parse *)
RunPromptRead(input) ==
    /\ pc = "prompt"
    /\ nlines < MaxLines
    /\ TrimSpace(input) # wExit
    /\ \E r \in {ScanAndParse(input)} :
           /\ source' = input
           /\ tokens' = r.ls.tokens
           /\ start' = r.ls.start
           /\ current' = r.ls.current
           /\ line' = r.ls.line
           /\ diag' = r.diag
           /\ stmts' = r.stmts
           /\ pc' = IF r.st = "ok" THEN "interpret" ELSE r.st
    /\ ip' = 0
    /\ out' = <<>>
    /\ last' = NoResult
    /\ nlines' = nlines + 1
    /\ UNCHANGED <<env, mode, decl>>

(* one iteration of the loop of Interpret *)
InterpretStmt ==
    /\ pc = "interpret"
    /\ ip < Len(stmts)
    /\ \E r \in {InterpretOne(stmts[ip + 1], env, mode)} :
           /\ env' = r.env
           /\ out' = out \o r.out
           /\ last' = [stmt |-> stmts[ip + 1], st |-> r.st, v |-> r.v,
                       msg |-> r.msg]
           /\ pc' = IF r.st = "ok" THEN "interpret" ELSE "panic"
           /\ decl' = IF r.st = "ok" /\ stmts[ip + 1].type = "VAR_STMT"
                      THEN Define(decl, stmts[ip + 1].Name.Lexeme, r.v)
                      ELSE decl
    /\ ip' = ip + 1
    /\ UNCHANGED <<source, tokens, start, current, line, diag, stmts, mode,
                   nlines>>

(* Interpret returns and runPrompt prompts for the next line *)
InterpretReturn ==
    /\ pc = "interpret"
    /\ ip = Len(stmts)
    /\ pc' = "prompt"
    /\ out' = <<>>
    /\ diag' = <<>>
    /\ ClearLine
    /\ UNCHANGED <<env, mode, decl, nlines>>

Init ==
    /\ source = <<>>
    /\ tokens = <<>>
    /\ start = 0
    /\ current = 0
    /\ line = 1
    /\ pc = "prompt"
    /\ diag = <<>>
    /\ stmts = <<>>
    /\ ip = 0
    /\ env = NewEnv
    /\ mode \in {"ModePrompt", "ModeFile"}
    /\ out = <<>>
    /\ last = NoResult
    /\ decl = NewEnv
    /\ nlines = 0

Next ==
    \/ \E input \in Lines : RunPromptRead(input)
    \/ \E input \in Lines : RunPromptExit(input)
    \/ InterpretStmt
    \/ InterpretReturn

Spec == Init /\ [][Next]_vars

(***************************************************************************)
(* Claims about the parser and the interpreter.                            *)
(***************************************************************************)
BinaryLevel ==
    [t \in {"EQUAL_EQUAL", "BANG_EQUAL", "GREATER", "GREATER_EQUAL", "LESS",
            "LESS_EQUAL", "MINUS", "PLUS", "SLASH", "STAR"} |->
        CASE t \in {"EQUAL_EQUAL", "BANG_EQUAL"} -> 1
          [] t \in {"GREATER", "GREATER_EQUAL", "LESS", "LESS_EQUAL"} -> 2
          [] t \in {"MINUS", "PLUS"} -> 3
          [] t \in {"SLASH", "STAR"} -> 4]

IsOperandToken(tok) == tok.Type \in {"NUMBER", "STRING", "IDENTIFIER"}

Leaf(tok) ==
    CASE tok.Type = "NUMBER" -> Literal(NewFloatValue(tok.Literal.v))
      [] tok.Type = "STRING" -> Literal(NewStringValue(tok.Literal.v))
      [] tok.Type = "IDENTIFIER" -> Variable(tok.Lexeme)

(* the tokens of the line read are  a op1 b op2 c ; EOF *)
IsTripleLine ==
    /\ Len(tokens) = 7
    /\ IsOperandToken(tokens[1])
    /\ tokens[2].Type \in DOMAIN BinaryLevel
    /\ IsOperandToken(tokens[3])
    /\ tokens[4].Type \in DOMAIN BinaryLevel
    /\ IsOperandToken(tokens[5])
    /\ tokens[6].Type = "SEMICOLON"
    /\ tokens[7].Type = "EOF"

LeftGrouped ==
    Binary(Binary(Leaf(tokens[1]), tokens[2], Leaf(tokens[3])),
           tokens[4], Leaf(tokens[5]))

RightGrouped ==
    Binary(Leaf(tokens[1]), tokens[2],
           Binary(Leaf(tokens[3]), tokens[4], Leaf(tokens[5])))

Line_1_plus_2_times_3 ==
    Join(<< <<"1">>, <<"+">>, <<"2">>, <<"*">>, <<"3">>, <<";">> >>)

Line_8_minus_3_minus_2 ==
    Join(<< <<"8">>, <<"-">>, <<"3">>, <<"-">>, <<"2">>, <<";">> >>)

Number(n) == NewFloatValue(<<n, 1>>)

(* C6: in  a op1 b op2 c  with operators of different levels the tighter   *)
(* operator is grouped first, whichever side it is on; and 1 + 2 * 3       *)
(* evaluates to 7.                                                         *)
C6_Precedence ==
    /\ (IsTripleLine
          /\ BinaryLevel[tokens[2].Type] < BinaryLevel[tokens[4].Type])
         => stmts = <<ExpressionStmt(RightGrouped)>>
    /\ (IsTripleLine
          /\ BinaryLevel[tokens[2].Type] > BinaryLevel[tokens[4].Type])
         => stmts = <<ExpressionStmt(LeftGrouped)>>
    /\ (source = Line_1_plus_2_times_3 /\ ip = 1)
         => (last.st = "ok" /\ last.v = Number(7))

C6_Witness ==
    /\ source = Line_1_plus_2_times_3
    /\ ip = 1
    /\ stmts = <<ExpressionStmt(RightGrouped)>>
    /\ last.v = Number(7)

(* C7: in  a op1 b op2 c  with operators of the same level the left        *)
(* operator is grouped first; and 8 - 3 - 2 evaluates to 3.                *)
C7_LeftAssociative ==
    /\ (IsTripleLine
          /\ BinaryLevel[tokens[2].Type] = BinaryLevel[tokens[4].Type])
         => stmts = <<ExpressionStmt(LeftGrouped)>>
    /\ (source = Line_8_minus_3_minus_2 /\ ip = 1)
         => (last.st = "ok" /\ last.v = Number(3))

C7_Witness ==
    /\ source = Line_8_minus_3_minus_2
    /\ ip = 1
    /\ stmts = <<ExpressionStmt(LeftGrouped)>>
    /\ last.v = Number(3)

(* C8: a '(' expression without its ')' gives a parse error that names the *)
(* missing ')' and is returned to the caller: the process goes on.         *)
C8_MissingParenIsReturned ==
    (diag # <<>> /\ diag[Len(diag)].msg = "expect ')' after expression")
        => pc # "fatal"

IsRead(stmt) ==
    /\ stmt.type \in {"EXPRESSION_STMT", "PRINT_STMT"}
    /\ stmt.Expr.type = "Variable"

(* C9: a read of a declared variable yields the value of the most recent   *)
(* VarDeclaration of that name.                                            *)
C9_ReadYieldsLastDeclaration ==
    (IsRead(last.stmt) /\ last.stmt.Expr.Name \in DOMAIN decl)
        => /\ last.st = "ok"
           /\ last.v = decl[last.stmt.Expr.Name]

(* C10: evaluating Variable{name} returns the bound value when the name is *)
(* bound, and Nil, without a fault, when it was never declared.            *)
C10_VariableLookup ==
    IsRead(last.stmt)
        => /\ last.st = "ok"
           /\ last.v = IF last.stmt.Expr.Name \in DOMAIN env
                       THEN env[last.stmt.Expr.Name] ELSE NewNilValue

(***************************************************************************)
(* Claims about the operators.  A line  a op b ;  or  op a ;  has literal  *)
(* or variable operands; Denoted(tok) is the value the language gives the  *)
(* operand: the literal's value, or the value bound to the variable.       *)
(***************************************************************************)
IsValueToken(tok) ==
    \/ tok.Type \in {"NUMBER", "STRING", "TRUE", "FALSE", "NIL"}
    \/ tok.Type = "IDENTIFIER" /\ tok.Lexeme \in DOMAIN env
                               /\ env[tok.Lexeme] # NilPointer

Denoted(tok) ==
    CASE tok.Type = "NUMBER" -> NewFloatValue(tok.Literal.v)
      [] tok.Type = "STRING" -> NewStringValue(tok.Literal.v)
      [] tok.Type = "TRUE" -> NewBoolValue(TRUE)
      [] tok.Type = "FALSE" -> NewBoolValue(FALSE)
      [] tok.Type = "NIL" -> NewNilValue
      [] tok.Type = "IDENTIFIER" -> env[tok.Lexeme]

(* the tokens of the line read are  a op b ; EOF  with op among ops *)
IsPairLine(ops) ==
    /\ Len(tokens) = 5
    /\ IsValueToken(tokens[1])
    /\ tokens[2].Type \in ops
    /\ IsValueToken(tokens[3])
    /\ tokens[4].Type = "SEMICOLON"
    /\ tokens[5].Type = "EOF"

(* the tokens of the line read are  op a ; EOF *)
IsUnaryLine(op) ==
    /\ Len(tokens) = 4
    /\ tokens[1].Type = op
    /\ IsValueToken(tokens[2])
    /\ tokens[3].Type = "SEMICOLON"
    /\ tokens[4].Type = "EOF"

(* the one statement of the line yields the value v *)
Yields(v) ==
    /\ pc \notin {"panic", "fatal"}
    /\ ip = 1 => (last.st = "ok" /\ last.v = v)

(* same variant and equal by value *)
EqualByValue(a, b) ==
    /\ a.kind = b.kind
    /\ CASE a.kind = "FloatVal" -> fEq(a.v, b.v)
         [] a.kind = "NilVal" -> TRUE
         [] OTHER -> a.v = b.v

(* C11: a == b is true exactly when a and b are of the same variant and    *)
(* equal by value, false for every cross-variant pair; a != b is its       *)
(* negation; nil == nil is true, 1 == "1" is false, 1 == 1.0 is true.      *)
C11_Equality ==
    /\ IsPairLine({"EQUAL_EQUAL"})
         => Yields(NewBoolValue(EqualByValue(Denoted(tokens[1]),
                                             Denoted(tokens[3]))))
    /\ IsPairLine({"BANG_EQUAL"})
         => Yields(NewBoolValue(~EqualByValue(Denoted(tokens[1]),
                                              Denoted(tokens[3]))))

TypeMismatchMessages ==
    {"Operands must be two numbers or two strings",
     "Operands must be numbers", "Operand must be a number"}

(* the one statement of the line raises a type-mismatch runtime error *)
RaisesTypeMismatch ==
    /\ pc # "fatal"
    /\ (pc = "panic" \/ ip = 1)
         => (last.st = "panic" /\ last.msg \in TypeMismatchMessages)

BothNumbers(a, b) == a.kind = "FloatVal" /\ b.kind = "FloatVal"

BothStrings(a, b) == a.kind = "StrVal" /\ b.kind = "StrVal"

(* the value of  a op b  for two Numbers *)
NumberResult(op, a, b) ==
    CASE op = "PLUS" -> NewFloatValue(fAdd(a.v, b.v))
      [] op = "MINUS" -> NewFloatValue(fSub(a.v, b.v))
      [] op = "STAR" -> NewFloatValue(fMul(a.v, b.v))
      [] op = "SLASH" -> NewFloatValue(fDiv(a.v, b.v))
      [] op = "GREATER" -> NewBoolValue(fLess(b.v, a.v))
      [] op = "GREATER_EQUAL" -> NewBoolValue(fLess(b.v, a.v) \/ fEq(a.v, b.v))
      [] op = "LESS" -> NewBoolValue(fLess(a.v, b.v))
      [] op = "LESS_EQUAL" -> NewBoolValue(fLess(a.v, b.v) \/ fEq(a.v, b.v))

TypedOperators ==
    {"PLUS", "MINUS", "STAR", "SLASH", "GREATER", "GREATER_EQUAL", "LESS",
     "LESS_EQUAL"}

BinaryTyping(op, a, b) ==
    IF BothNumbers(a, b) THEN Yields(NumberResult(op, a, b))
    ELSE IF op = "PLUS" /\ BothStrings(a, b)
         THEN Yields(NewStringValue(a.v \o b.v))
    ELSE RaisesTypeMismatch

(* C12: + gives the sum of two Numbers and the concatenation of two        *)
(* Strings; -, *, /, >, >=, <, <= give a result for two Numbers; every     *)
(* other combination of operands raises a type-mismatch runtime error and  *)
(* yields no value.                                                        *)
C12_BinaryTyping ==
    IsPairLine(TypedOperators)
        => BinaryTyping(tokens[2].Type, Denoted(tokens[1]), Denoted(tokens[3]))

(* truthiness: Nil is falsy, a Boolean is itself, a Number is truthy iff   *)
(* it is not 0, a String iff it is not empty                               *)
Truthy(a) ==
    CASE a.kind = "NilVal" -> FALSE
      [] a.kind = "BoolVal" -> a.v
      [] a.kind = "FloatVal" -> ~fEq(a.v, <<0, 1>>)
      [] a.kind = "StrVal" -> Len(a.v) > 0

(* C13: !a is the Boolean negation of the truthiness of a, for a of any    *)
(* variant (!0, !"" and !nil are true, !"x" is false); -a is the negation  *)
(* of a Number and a runtime error for any other operand.                  *)
C13_Unary ==
    /\ IsUnaryLine("BANG")
         => Yields(NewBoolValue(~Truthy(Denoted(tokens[2]))))
    /\ IsUnaryLine("MINUS")
         => IF Denoted(tokens[2]).kind = "FloatVal"
            THEN Yields(NewFloatValue(fNeg(Denoted(tokens[2]).v)))
            ELSE RaisesTypeMismatch

(***************************************************************************)
(* Claims about statements and the session.                                *)
(***************************************************************************)
Line_x_assign_2 == Join(<< <<"x">>, <<"=">>, <<"2">>, <<";">> >>)

Line_var_assign_read ==
    Join(<< wVar, <<"x">>, <<"=">>, <<"1">>, <<";">>, <<"x">>, <<"=">>,
            <<"2">>, <<";">>, <<"x">>, <<";">> >>)

(* C14: x = 2 evaluates to 2 and rebinds x, declared before or not; after  *)
(* var x = 1; x = 2; a read of x yields 2.                                 *)
C14_AssignRebinds ==
    /\ source = Line_x_assign_2
         => /\ pc \notin {"panic", "fatal"}
            /\ ip = 1 => /\ last.st = "ok"
                         /\ last.v = Number(2)
                         /\ <<"x">> \in DOMAIN env /\ env[<<"x">>] = Number(2)
    /\ source = Line_var_assign_read
         => /\ pc \notin {"panic", "fatal"}
            /\ ip = 3 => (last.st = "ok" /\ last.v = Number(2))

(* a step of Interpret that executes the statement stmts[ip + 1] *)
ExecutesStmt == pc = "interpret" /\ ip' = ip + 1

(* the lines the step writes *)
Written == SubSeq(out', Len(out) + 1, Len(out'))

(* the textual representation of a result, nil when there is no value *)
Rendering(v) == IF v = NilPointer THEN <<"n", "i", "l">> ELSE String(v)

(* the statement raised a type-mismatch runtime error *)
RaisedTypeMismatch ==
    last'.st = "panic" /\ last'.msg \in TypeMismatchMessages

(* what executing a statement of the given kind writes *)
WritesAsSpecified(kind) ==
    IF RaisedTypeMismatch THEN Written = <<>>
    ELSE CASE kind = "EXPRESSION_STMT" ->
                 IF mode = "ModePrompt" THEN Written = <<Rendering(last'.v)>>
                 ELSE Written = <<>>
           [] kind = "PRINT_STMT" -> Written = <<Rendering(last'.v)>>
           [] kind = "VAR_STMT" -> Written = <<>>

(* C15: in prompt mode an ExpressionStatement writes exactly one echo      *)
(* line, its value's representation or nil; a PrintStatement and a         *)
(* VarDeclaration are not echoed; in file mode no ExpressionStatement is   *)
(* echoed; in both modes a PrintStatement writes its value exactly once.   *)
C15_OutputPerStatement ==
    [][ExecutesStmt => WritesAsSpecified(stmts[ip + 1].type)]_vars

(* C16: in prompt mode a statement that raises a runtime error does not    *)
(* end the session: the error is reported, the prompt loop goes on to      *)
(* later Interpret calls, and the bindings made before the statement keep  *)
(* their values.                                                           *)
C16_SessionSurvivesRuntimeError ==
    (mode = "ModePrompt" /\ last.st = "panic"
        /\ last.msg \in TypeMismatchMessages)
        => /\ pc \in {"interpret", "prompt"}
           /\ env = decl

Line_print(w) == Join(<<wPrint, w, <<";">> >>)

(* the line completes without a fault and writes exactly the text *)
PrintsOnly(text) ==
    /\ pc \notin {"panic", "fatal"}
    /\ ip = 1 => (last.st = "ok" /\ out = <<text>>)

(* C17: print true; print false; and print nil; each complete without a    *)
(* fault and write true, false and nil; the literals parse to the Boolean  *)
(* of that value and to Nil.                                               *)
C17_KeywordLiteralsPrint ==
    /\ source = Line_print(wTrue)
         => /\ PrintsOnly(wTrue)
            /\ pc = "interpret"
                 => stmts = <<PrintStmt(Literal(NewBoolValue(TRUE)))>>
    /\ source = Line_print(wFalse)
         => /\ PrintsOnly(wFalse)
            /\ pc = "interpret"
                 => stmts = <<PrintStmt(Literal(NewBoolValue(FALSE)))>>
    /\ source = Line_print(wNil) => PrintsOnly(wNil)

(* the effect on the Environment of executing the statement s *)
FrameOf(s) ==
    /\ s.type \in {"EXPRESSION_STMT", "PRINT_STMT"} => env' = env
    /\ s.type = "VAR_STMT"
         => /\ \A n \in DOMAIN env \ {s.Name.Lexeme} :
                   n \in DOMAIN env' /\ env'[n] = env[n]
            /\ DOMAIN env' \subseteq DOMAIN env \cup {s.Name.Lexeme}
            /\ last'.st = "panic" => env' = env

(* C18: executing an ExpressionStatement or a PrintStatement, variable     *)
(* lookups of bound and unbound names included, leaves the Environment as  *)
(* it was; a VarDeclaration of a name changes the binding of that name     *)
(* only, and none when its initializer raises a runtime error.             *)
C18_EnvironmentFrame ==
    [][ExecutesStmt => FrameOf(stmts[ip + 1])]_vars

(* the initializer of  var y = x + 1 ;  has faulted, and x alone is bound *)
C18_Witness ==
    /\ last.stmt.type = "VAR_STMT"
    /\ last.stmt.Name.Lexeme = <<"y">>
    /\ last.st = "panic"
    /\ last.msg \in TypeMismatchMessages
    /\ DOMAIN env = {<<"x">>}

(* no expression is missing in the tree e *)
RECURSIVE NonNull(_)
NonNull(e) ==
    /\ e # NilExpr
    /\ CASE e.type = "Binary" -> NonNull(e.Left) /\ NonNull(e.Right)
         [] e.type = "Unary" -> NonNull(e.Right)
         [] OTHER -> TRUE

WellFormed(s) ==
    IF s.type = "VAR_STMT" THEN s.Expr = NilExpr \/ NonNull(s.Expr)
    ELSE NonNull(s.Expr)

(* C19: the statements Parse returns hold no missing expression: every     *)
(* ExpressionStmt and PrintStmt has an expression, every Binary both       *)
(* operands, every Unary its operand; only a VarStmt may have none.  A     *)
(* lone ; or print ; or 1 + ; or (); is a parse error, not a statement.    *)
C19_NoMissingExpression ==
    \A i \in 1..Len(stmts) : WellFormed(stmts[i])

====
